---- MODULE Spec2Model ----
(***************************************************************************)
(* Print job hierarchy of octoprint.comm.job: Printjob, LocalFilePrintjob, *)
(* LocalGcodeFilePrintjob, LocalGcodeStreamjob and SDFilePrintjob, driven  *)
(* by a caller (process, get_next, cancel, pause, resume), by transport    *)
(* callbacks and by the status timer.  Every public call is one action.    *)
(***************************************************************************)
EXTENDS Integers, Sequences, FiniteSets, TLC

\* ------------------------------------------------------------------ bounds
MaxLines   == 2    \* physical lines of the backing file
MaxSeek    == 1    \* largest position handed to process()
MaxRuns    == 2    \* process() calls in one behaviour
MaxTime    == 1    \* readings of the monotonic clock
MaxTerminals == 2  \* terminal notifications counted within one active period
MaxLost    == 1    \* total of the values given to add_to_lost_time
MaxSDSize  == 1    \* largest size the device reports for its file

\* ------------------------------------------------------------- vocabulary
None       == -1           \* Python None in a numeric field
NoProtocol == "None"       \* Python None in the _protocol field
Proto      == "protocol"   \* the one transport

LocalKinds == {"LocalFilePrintjob", "LocalGcodeFilePrintjob", "LocalGcodeStreamjob"}
GcodeKinds == {"LocalGcodeFilePrintjob", "LocalGcodeStreamjob"}
Kinds      == LocalKinds \cup {"SDFilePrintjob"}

ProtocolStates == {"CONNECTED", "DISCONNECTED", "DISCONNECTED_WITH_ERROR"}
Disconnected   == {"DISCONNECTED", "DISCONNECTED_WITH_ERROR"}

Terminal == {"on_job_done", "on_job_failed", "on_job_cancelled"}

Whitespace == {" ", "\n"}
\* a command with surrounding blanks and a comment, and a pure comment line
LineSet == { <<" ", "G", ";", "\n">>, <<";", "\n">> }

RECURSIVE Flatten(_)
Flatten(ls) == IF ls = <<>> THEN <<>> ELSE Head(ls) \o Flatten(Tail(ls))

Files == { Flatten(ls) : ls \in UNION { [1..n -> LineSet] : n \in 0..MaxLines } }

VARIABLES
  kind,          \* class of the job object
  content,       \* decoded text of the file at _path (unchanged for the job's life)
  now,           \* monotonic()
  start,         \* _start
  protocol,      \* _protocol
  lost_time,     \* _lost_time
  last_elapsed,  \* _last_elapsed
  handle,        \* _handle: None, or the read offset of the open handle
  pos,           \* _pos
  read_lines,    \* _read_lines
  actual_lines,  \* _actual_lines
  cancel_pos,    \* _cancel_pos
  active_flag,   \* SDFilePrintjob._active
  last_pos,      \* SDFilePrintjob._last_pos
  sd_size,       \* SDFilePrintjob._size
  status_timer,  \* SDFilePrintjob._status_timer: None, or the number of the timer
  timers,        \* RepeatedTimer threads that have not stopped yet
  registered,    \* the job is in the transport's listener registry
  recording,     \* transport: record_file() not yet undone by stop_recording_file()
  deleted,       \* transport: delete_file(remote) was issued
  printing,      \* transport: start_file_print() was issued
  status_queried,\* transport: a get_file_print_status() command was received
  terminals,     \* terminal notifications sent since the last process()
  first,         \* the first notification sent since the last process(), "" if none
  late_progress, \* on_job_progress was sent after a terminal one since the last process()
  emitted,       \* notifications sent by the last call, in order
  raised,        \* the last call raised
  ret,           \* value returned by the last get_next()
  got,           \* values returned by get_next() since the last process(), in order
  error_cancelled, \* cancel(error=True) ended an active run and process() was not called since
  trace,         \* the last call's notifications and transport commands, in order,
                 \* each with the transport's recording state after it
  pc,            \* where the thread that called get_next() stands inside it
  ticking,       \* the status timers that found their condition true and are about to call
  lastOp,        \* the last step: the call and its argument, or the clock
  runs,          \* process() calls so far
  clean,         \* the current run began idle at position 0 and saw only successful get_next()
  ends           \* counters at the end of each clean run: <<read_lines, actual_lines>>

jobvars == <<start, protocol, lost_time, last_elapsed, handle, pos, read_lines,
             actual_lines, cancel_pos, active_flag, last_pos, sd_size,
             status_timer, timers>>
trvars  == <<registered, recording, deleted, printing, status_queried>>
obsvars == <<terminals, first, late_progress, emitted, raised, ret, got, error_cancelled,
             trace, lastOp, runs, clean, ends>>
thrvars == <<pc, ticking>>
vars    == <<kind, content, now, jobvars, trvars, obsvars, thrvars>>

\* ---------------------------------------------------- the state as a value
\* Handlers call each other; each is an operator from state to state over
\* this record, and Commit writes the record back to the variables.
World ==
  [ start |-> start, protocol |-> protocol, lost_time |-> lost_time,
    last_elapsed |-> last_elapsed, handle |-> handle, pos |-> pos,
    read_lines |-> read_lines, actual_lines |-> actual_lines,
    cancel_pos |-> cancel_pos, active_flag |-> active_flag,
    last_pos |-> last_pos, sd_size |-> sd_size,
    status_timer |-> status_timer, timers |-> timers,
    registered |-> registered, recording |-> recording, deleted |-> deleted,
    printing |-> printing, status_queried |-> status_queried,
    out |-> <<>>, log |-> <<>>, raised |-> FALSE, ret |-> [tag |-> "nothing", val |-> <<>>] ]

Raise(w) == [w EXCEPT !.raised = TRUE]

\* ----------------------------------------------------------- text helpers
RECURSIVE LStrip(_)
LStrip(s) == IF s # <<>> /\ Head(s) \in Whitespace THEN LStrip(Tail(s)) ELSE s

RECURSIVE RStrip(_)
RStrip(s) == IF s # <<>> /\ s[Len(s)] \in Whitespace
             THEN RStrip(SubSeq(s, 1, Len(s) - 1)) ELSE s

Strip(s) == RStrip(LStrip(s))

RECURSIVE UpToComment(_)
UpToComment(s) == IF s = <<>> \/ Head(s) = ";" THEN <<>>
                  ELSE <<Head(s)>> \o UpToComment(Tail(s))

strip_comment(s) == Strip(UpToComment(s))

\* readline() on a handle at offset off: up to and including the next newline
RECURSIVE ReadLine(_, _)
ReadLine(text, off) ==
  IF off >= Len(text) THEN <<>>
  ELSE IF text[off + 1] = "\n" THEN <<"\n">>
  ELSE <<text[off + 1]>> \o ReadLine(text, off + 1)

NoLine == [none |-> TRUE, val |-> <<>>]
Line(s) == [none |-> FALSE, val |-> s]

GcodeProcessLineKeepsComment(line) ==
  LET processed == Strip(line)
  IN IF Len(processed) = 0 THEN NoLine ELSE Line(processed)

GcodeProcessLine(line) ==
  LET processed == strip_comment(Strip(line))
  IN IF Len(processed) = 0 THEN NoLine ELSE Line(processed)

process_line(line) ==
  IF kind \in GcodeKinds THEN GcodeProcessLine(line) ELSE Line(line)

\* -------------------------------------------------------------- properties
Elapsed(w) == IF w.start # None THEN now - w.start ELSE None

ActiveOf(w) ==
  IF kind \in LocalKinds THEN w.start # None /\ w.handle # None
  ELSE w.start # None /\ w.active_flag

Active == ActiveOf(World)
elapsed == Elapsed(World)

\* elapsed - _lost_time, None while the job has no start time
CleanElapsed(w) == IF Elapsed(w) = None THEN None ELSE Elapsed(w) - w.lost_time

clean_elapsed == CleanElapsed(World)

\* the size and pos properties of each class
SizeOf(w) == IF kind \in LocalKinds THEN Len(content) ELSE w.sd_size
PosOf(w)  == IF kind \in LocalKinds THEN w.pos ELSE w.last_pos

\* float(pos) / float(size), kept as the quotient's numerator and denominator;
\* the property's None is the quotient without a denominator
NoProgress == [num |-> 0, den |-> 0]

ProgressOf(w) ==
  LET size == SizeOf(w)
      p    == PosOf(w)
  IN IF p = None \/ size = None \/ size = 0 THEN NoProgress
     ELSE [num |-> p, den |-> size]

progress == ProgressOf(World)

\* ------------------------------------------------------------ notification
\* what a listener or the transport sees of the call, in the order it happens
Event(w, name) == [ev |-> name, recording |-> w.recording]

notify_listeners(w, name) ==
  [w EXCEPT !.out = Append(@, name), !.log = Append(@, Event(w, name))]

\* ------------------------------------------------------------------- reset
PrintjobResetJob(w) ==
  [w EXCEPT !.last_elapsed = IF w.start # None THEN Elapsed(w) ELSE @,
            !.start = None]

close(w) == [w EXCEPT !.handle = None]

LocalResetJobWrongCounter(w) ==
  [close(PrintjobResetJob(w)) EXCEPT !.pos = 0, !.actual_lines = 0]

LocalResetJob(w) ==
  [close(PrintjobResetJob(w)) EXCEPT !.pos = 0, !.read_lines = 0]

SDResetJobKeepsActive(w) ==
  [w EXCEPT !.last_pos = None, !.sd_size = None]

SDResetJob(w) ==
  [w EXCEPT !.active_flag = FALSE, !.last_pos = None, !.sd_size = None]

reset_job(w) ==
  IF kind \in LocalKinds THEN LocalResetJob(w) ELSE SDResetJob(w)

\* ------------------------------------------------------ terminal handlers
PrintjobProcessJobDone(w)      == reset_job(notify_listeners(w, "on_job_done"))
PrintjobProcessJobFailed(w)    == reset_job(notify_listeners(w, "on_job_failed"))
PrintjobProcessJobCancelled(w) == reset_job(notify_listeners(w, "on_job_cancelled"))

stop_recording_file(w) ==
  LET s == [w EXCEPT !.recording = FALSE]
  IN  [s EXCEPT !.log = Append(@, Event(s, "stop_recording_file"))]

delete_file(w) ==
  LET d == [w EXCEPT !.deleted = TRUE]
  IN  [d EXCEPT !.log = Append(@, Event(d, "delete_file"))]

process_job_done(w) ==
  IF kind = "LocalGcodeStreamjob"
  THEN IF w.protocol = NoProtocol THEN Raise(w)
       ELSE PrintjobProcessJobDone(stop_recording_file(w))
  ELSE PrintjobProcessJobDone(w)

ProcessJobFailedKeepsRecording(w) ==
  IF kind = "LocalGcodeStreamjob"
  THEN IF w.protocol = NoProtocol THEN Raise(w)
       ELSE PrintjobProcessJobFailed(w)
  ELSE PrintjobProcessJobFailed(w)

process_job_failed(w) ==
  IF kind = "LocalGcodeStreamjob"
  THEN IF w.protocol = NoProtocol THEN Raise(w)
       ELSE PrintjobProcessJobFailed(stop_recording_file(w))
  ELSE PrintjobProcessJobFailed(w)

process_job_cancelled(w) ==
  IF kind = "LocalGcodeStreamjob"
  THEN IF w.protocol = NoProtocol THEN Raise(w)
       ELSE PrintjobProcessJobCancelled(delete_file(stop_recording_file(w)))
  ELSE PrintjobProcessJobCancelled(w)

\* ------------------------------------------------------------------ cancel
unregister_listener(w) == [w EXCEPT !.registered = FALSE]
register_listener(w)   == [w EXCEPT !.registered = TRUE]

PrintjobCancel(w, error) ==
  LET w1 == IF error THEN process_job_failed(w) ELSE process_job_cancelled(w)
  IN  IF w1.raised THEN w1
      ELSE IF w1.protocol = NoProtocol THEN Raise(w1)
      ELSE [unregister_listener(w1) EXCEPT !.protocol = NoProtocol]

cancel(w, error) ==
  IF kind \in LocalKinds
  THEN PrintjobCancel([w EXCEPT !.cancel_pos = w.pos], error)
  ELSE PrintjobCancel(w, error)

\* ----------------------------------------------------------------- process
PrintjobProcess(w) ==
  register_listener([w EXCEPT !.start = now, !.protocol = Proto])

process_job_started(w)  == notify_listeners(w, "on_job_started")
process_job_progress(w) == notify_listeners(w, "on_job_progress")
process_job_paused(w)   == notify_listeners(w, "on_job_paused")
process_job_resumed(w)  == notify_listeners(w, "on_job_resumed")

LocalProcess(w, position) ==
  LET w1 == [PrintjobProcess(w) EXCEPT !.handle = 0]
      w2 == IF position > 0
            THEN [w1 EXCEPT !.handle = position, !.pos = position]
            ELSE w1
  IN  process_job_started(w2)

record_file(w) ==
  LET r == [w EXCEPT !.recording = TRUE, !.deleted = FALSE]
  IN  [r EXCEPT !.log = Append(@, Event(r, "record_file"))]

StreamProcess(w, position) == record_file(LocalProcess(w, position))

start_file_print(w) == [w EXCEPT !.printing = TRUE]

SDProcess(w, position) ==
  LET w1 == start_file_print(register_listener(PrintjobProcess(w)))
  IN  [w1 EXCEPT !.active_flag = TRUE, !.last_pos = position,
                 !.status_timer = runs + 1, !.timers = @ \cup {runs + 1}]

process(w, position) ==
  IF kind = "SDFilePrintjob" THEN SDProcess(w, position)
  ELSE IF kind = "LocalGcodeStreamjob" THEN StreamProcess(w, position)
  ELSE LocalProcess(w, position)

\* ---------------------------------------------------------------- get_next
RetNone     == [tag |-> "None", val |-> <<>>]
RetValue(s) == [tag |-> "value", val |-> s]

\* the position and line accounting that follows each readline()
CountLineAssigningPos(w, line) ==
  [w EXCEPT !.handle = @ + Len(line), !.pos = Len(line), !.actual_lines = @ + 1]

CountLine(w, line) ==
  [w EXCEPT !.handle = @ + Len(line), !.pos = @ + Len(line), !.actual_lines = @ + 1]

\* the body of the try block; failAt = k > 0 makes the k-th readline() of
\* this call raise
RECURSIVE GetNextLoop(_, _)
GetNextLoop(w, failAt) ==
  IF w.handle = None
  THEN LET d == process_job_done(w)
       IN  IF d.raised THEN d ELSE [d EXCEPT !.ret = RetNone]
  ELSE IF failAt = 1 THEN Raise(w)
  ELSE LET line      == ReadLine(content, w.handle)
           w1        == CountLine(w, line)
           w2        == IF line = <<>> THEN process_job_done(w1) ELSE w1
           processed == process_line(line)
       IN  IF w2.raised THEN w2
           ELSE IF processed.none
           THEN GetNextLoop(w2, IF failAt > 1 THEN failAt - 1 ELSE 0)
           ELSE [process_job_progress([w2 EXCEPT !.read_lines = @ + 1])
                   EXCEPT !.ret = RetValue(processed.val)]

get_next(w, failAt) ==
  IF w.handle = None THEN Raise(w)
  ELSE LET r == GetNextLoop(w, failAt)
       IN  IF r.raised THEN Raise(cancel([r EXCEPT !.raised = FALSE], TRUE))
           ELSE r

\* get_next() statement by statement, for the threads that run beside it:
\* the check before the try block
get_next_enter(w) == IF w.handle = None THEN Raise(w) ELSE w

\* the except clause
get_next_except(r) ==
  IF r.raised THEN Raise(cancel([r EXCEPT !.raised = FALSE], TRUE)) ELSE r

\* the handle check at the top of the loop
get_next_check(w) ==
  IF w.handle = None
  THEN LET d == process_job_done(w)
       IN  get_next_except(IF d.raised THEN d ELSE [d EXCEPT !.ret = RetNone])
  ELSE w

\* readline() and the rest of the loop body; the handle is dereferenced
\* without being checked again
get_next_read(w) ==
  IF w.handle = None THEN get_next_except(Raise(w))
  ELSE LET line      == ReadLine(content, w.handle)
           w1        == CountLine(w, line)
           w2        == IF line = <<>> THEN process_job_done(w1) ELSE w1
           processed == process_line(line)
       IN  IF w2.raised \/ processed.none THEN get_next_except(w2)
           ELSE [process_job_progress([w2 EXCEPT !.read_lines = @ + 1])
                   EXCEPT !.ret = RetValue(processed.val)]

\* ------------------------------------------------------ transport callbacks
OnProtocolStateUnguarded(w, new_state) ==
  IF new_state \in Disconnected THEN cancel(w, TRUE) ELSE w

on_protocol_state(w, new_state) ==
  IF new_state \in Disconnected /\ ActiveOf(w) THEN cancel(w, TRUE) ELSE w

OnProtocolFileStatusKeepsPos(w, p, total) ==
  process_job_progress([w EXCEPT !.sd_size = total])

on_protocol_file_status(w, p, total) ==
  process_job_progress([w EXCEPT !.last_pos = p, !.sd_size = total])

on_protocol_file_print_started(w, size) ==
  process_job_started([w EXCEPT !.sd_size = size])

on_protocol_file_print_done(w) == process_job_done(w)

\* -------------------------------------------------------------- status timer
get_file_print_status(w) == [w EXCEPT !.status_queried = TRUE]

query_status(w, can_send) ==
  IF w.protocol = NoProtocol THEN Raise(w)
  ELSE IF can_send THEN get_file_print_status(w) ELSE w

query_active(w) == w.active_flag

\* one round of RepeatedTimer.run for timer t
timer_round(w, t, can_send) ==
  IF ~query_active(w) THEN [w EXCEPT !.timers = @ \ {t}]
  ELSE LET q == query_status(w, can_send)
       IN  IF q.raised THEN [q EXCEPT !.timers = @ \ {t}] ELSE q

\* ------------------------------------------------------------------ actions
Op(name, arg) == [op |-> name, arg |-> arg]

\* how a call that sent the notifications out moves the observers of the period
RECURSIVE CountTerminal(_)
CountTerminal(out) ==
  IF out = <<>> THEN 0
  ELSE (IF Head(out) \in Terminal THEN 1 ELSE 0) + CountTerminal(Tail(out))

RECURSIVE ProgressAfterTerminal(_, _)
ProgressAfterTerminal(out, seen) ==
  IF out = <<>> THEN FALSE
  ELSE \/ seen /\ Head(out) = "on_job_progress"
       \/ ProgressAfterTerminal(Tail(out), seen \/ Head(out) \in Terminal)

Store(w, op, newPeriod) ==
  /\ (IF newPeriod THEN 0 ELSE terminals) + CountTerminal(w.out) <= MaxTerminals
  /\ start' = w.start
  /\ protocol' = w.protocol
  /\ lost_time' = w.lost_time
  /\ last_elapsed' = w.last_elapsed
  /\ handle' = w.handle
  /\ pos' = w.pos
  /\ read_lines' = w.read_lines
  /\ actual_lines' = w.actual_lines
  /\ cancel_pos' = w.cancel_pos
  /\ active_flag' = w.active_flag
  /\ last_pos' = w.last_pos
  /\ sd_size' = w.sd_size
  /\ status_timer' = w.status_timer
  /\ timers' = w.timers
  /\ registered' = w.registered
  /\ recording' = w.recording
  /\ deleted' = w.deleted
  /\ printing' = w.printing
  /\ status_queried' = w.status_queried
  /\ terminals' = (IF newPeriod THEN 0 ELSE terminals) + CountTerminal(w.out)
  /\ first' = IF (newPeriod \/ first = "") /\ w.out # <<>> THEN Head(w.out)
              ELSE IF newPeriod THEN "" ELSE first
  /\ late_progress' = (\/ ProgressAfterTerminal(w.out, ~newPeriod /\ terminals > 0)
                        \/ (~newPeriod /\ late_progress))
  /\ emitted' = w.out
  /\ trace' = w.log
  /\ raised' = w.raised
  /\ ret' = w.ret
  /\ got' = IF w.ret.tag = "value" THEN Append(IF newPeriod THEN <<>> ELSE got, w.ret.val)
            ELSE IF newPeriod THEN <<>> ELSE got
  /\ error_cancelled' = (\/ (~newPeriod /\ error_cancelled)
                          \/ (op.op = "cancel" /\ op.arg = "error" /\ Active))
  /\ lastOp' = op
  /\ UNCHANGED <<kind, content, now>>

\* a call that runs to its end while no other thread is inside the job
Commit(w, op, newPeriod) == Store(w, op, newPeriod) /\ UNCHANGED thrvars

Unclean == clean' = FALSE /\ ends' = <<>>

Process ==
  \E position \in 0..MaxSeek :
    /\ runs < MaxRuns
    /\ kind \in LocalKinds => position <= Len(content)
    /\ Commit(process(World, position),
              Op("process", IF position = 0 THEN "start" ELSE "seek"), TRUE)
    /\ runs' = runs + 1
    /\ IF ~Active /\ position = 0
       THEN clean' = TRUE /\ ends' = ends
       ELSE Unclean

GetNext ==
  \E failAt \in 0..MaxLines :
    LET w == get_next(World, failAt)
    IN  /\ kind \in LocalKinds
        /\ Commit(w, Op("get_next", IF w.raised THEN "raised" ELSE "returned"), FALSE)
        /\ runs' = runs
        /\ IF w.raised THEN Unclean
           ELSE IF clean /\ "on_job_done" \in {w.out[i] : i \in 1..Len(w.out)}
           THEN /\ clean' = FALSE
                /\ ends' = Append(ends, [before |-> <<read_lines, actual_lines>>,
                                         after  |-> <<w.read_lines, w.actual_lines>>])
           ELSE UNCHANGED <<clean, ends>>

Cancel ==
  \E error \in BOOLEAN :
    /\ Commit(cancel(World, error), Op("cancel", IF error THEN "error" ELSE "user"), FALSE)
    /\ runs' = runs
    /\ Unclean

Pause ==
  /\ Commit(process_job_paused(World), Op("pause", ""), FALSE)
  /\ UNCHANGED <<runs, clean, ends>>

Resume ==
  /\ Commit(process_job_resumed(World), Op("resume", ""), FALSE)
  /\ UNCHANGED <<runs, clean, ends>>

\* the caller accounts the time a running job spent paused
AddToLostTime ==
  \E value \in 1..MaxLost :
    /\ Active
    /\ lost_time + value <= MaxLost
    /\ Commit([World EXCEPT !.lost_time = @ + value], Op("add_to_lost_time", ""), FALSE)
    /\ UNCHANGED <<runs, clean, ends>>

OnProtocolState ==
  \E new_state \in ProtocolStates :
    /\ Commit(on_protocol_state(World, new_state), Op("on_protocol_state", new_state), FALSE)
    /\ runs' = runs
    /\ IF new_state \in Disconnected /\ Active THEN Unclean
       ELSE UNCHANGED <<clean, ends>>

OnProtocolFileStatus ==
  \E total \in 1..MaxSDSize : \E p \in 0..total :
    /\ kind = "SDFilePrintjob"
    /\ Commit(on_protocol_file_status(World, p, total), Op("on_protocol_file_status", <<p, total>>), FALSE)
    /\ UNCHANGED <<runs, clean, ends>>

OnProtocolFilePrintStarted ==
  \E size \in 1..MaxSDSize :
    /\ kind = "SDFilePrintjob"
    /\ Commit(on_protocol_file_print_started(World, size),
              Op("on_protocol_file_print_started", ""), FALSE)
    /\ UNCHANGED <<runs, clean, ends>>

OnProtocolFilePrintDone ==
  /\ kind = "SDFilePrintjob"
  /\ Commit(on_protocol_file_print_done(World), Op("on_protocol_file_print_done", ""), FALSE)
  /\ UNCHANGED <<runs, clean, ends>>

TimerRound ==
  \E t \in timers : \E can_send \in BOOLEAN :
    /\ Commit(timer_round(World, t, can_send), Op("timer", ""), FALSE)
    /\ UNCHANGED <<runs, clean, ends>>

ClockAdvance ==
  /\ now < MaxTime
  /\ now' = now + 1
  /\ lastOp' = Op("clock", "")
  /\ UNCHANGED <<kind, content, jobvars, trvars, terminals, first, late_progress,
                 emitted, trace, raised, ret, got, error_cancelled, runs, clean, ends,
                 thrvars>>

Init ==
  /\ kind \in Kinds
  /\ content \in (IF kind \in LocalKinds THEN Files ELSE {<<>>})
  /\ now = 0
  /\ start = None
  /\ protocol = NoProtocol
  /\ lost_time = 0
  /\ last_elapsed = None
  /\ handle = None
  /\ pos = 0
  /\ read_lines = 0
  /\ actual_lines = 0
  /\ cancel_pos = None
  /\ active_flag = FALSE
  /\ last_pos = None
  /\ sd_size = None
  /\ status_timer = None
  /\ timers = {}
  /\ registered = FALSE
  /\ recording = FALSE
  /\ deleted = FALSE
  /\ printing = FALSE
  /\ status_queried = FALSE
  /\ terminals = 0
  /\ first = ""
  /\ late_progress = FALSE
  /\ emitted = <<>>
  /\ trace = <<>>
  /\ raised = FALSE
  /\ ret = [tag |-> "nothing", val |-> <<>>]
  /\ got = <<>>
  /\ error_cancelled = FALSE
  /\ pc = "idle"
  /\ ticking = {}
  /\ lastOp = Op("init", "")
  /\ runs = 0
  /\ clean = FALSE
  /\ ends = <<>>

Next ==
  \/ Process
  \/ GetNext
  \/ Cancel
  \/ Pause
  \/ Resume
  \/ OnProtocolState
  \/ OnProtocolFileStatus
  \/ OnProtocolFilePrintStarted
  \/ OnProtocolFilePrintDone
  \/ TimerRound

\* the lifecycle of the four job kinds under every sequence of calls
Spec == Init /\ [][Next]_vars

\* ---------------------------------------------------------------- threads
\* The driver calls process() and get_next() from one thread and starts a
\* job only when it is not active; cancel(), the transport's callbacks and
\* the status timers run on threads of their own, and nothing in the job
\* serialises them: a thread may be between two statements of get_next() or
\* of a timer round while another one runs.
ProcessIdle == pc = "idle" /\ ~Active /\ Process

GetNextEnter ==
  LET w == get_next_enter(World)
  IN  /\ kind \in LocalKinds
      /\ pc = "idle"
      /\ Store(w, Op("get_next", IF w.raised THEN "raised" ELSE "entered"), FALSE)
      /\ pc' = IF w.raised THEN "idle" ELSE "check"
      /\ runs' = runs
      /\ Unclean
      /\ UNCHANGED ticking

GetNextCheck ==
  LET w == get_next_check(World)
  IN  /\ pc = "check"
      /\ Store(w, Op("get_next", IF w.raised THEN "raised"
                                 ELSE IF w.ret = RetNone THEN "returned" ELSE "checked"),
               FALSE)
      /\ pc' = IF w.raised \/ w.ret = RetNone THEN "idle" ELSE "read"
      /\ runs' = runs
      /\ Unclean
      /\ UNCHANGED ticking

GetNextRead ==
  LET w == get_next_read(World)
  IN  /\ pc = "read"
      /\ Store(w, Op("get_next", IF w.raised THEN "raised"
                                 ELSE IF w.ret.tag = "value" THEN "returned" ELSE "read"),
               FALSE)
      /\ pc' = IF w.raised \/ w.ret.tag = "value" THEN "idle" ELSE "check"
      /\ runs' = runs
      /\ Unclean
      /\ UNCHANGED ticking

\* a timer's thread evaluates its condition ...
TimerCondition ==
  \E t \in timers \ ticking :
    /\ Store(IF query_active(World) THEN World ELSE [World EXCEPT !.timers = @ \ {t}],
             Op("timer", "condition"), FALSE)
    /\ ticking' = IF query_active(World) THEN ticking \cup {t} ELSE ticking
    /\ UNCHANGED <<pc, runs, clean, ends>>

\* ... and then calls _query_status
TimerCall ==
  \E t \in ticking : \E can_send \in BOOLEAN :
    LET q == query_status(World, can_send)
    IN  /\ Store(IF q.raised THEN [q EXCEPT !.timers = @ \ {t}] ELSE q,
                 Op("timer", "call"), FALSE)
        /\ ticking' = ticking \ {t}
        /\ UNCHANGED <<pc, runs, clean, ends>>

NextThreads ==
  \/ ProcessIdle
  \/ GetNextEnter
  \/ GetNextCheck
  \/ GetNextRead
  \/ Cancel
  \/ OnProtocolFilePrintDone
  \/ TimerCondition
  \/ TimerCall

SpecThreads == Init /\ [][NextThreads]_vars

\* the same with the clock running and pause time being accounted
NextTiming ==
  \/ Next
  \/ AddToLostTime
  \/ ClockAdvance

SpecTiming == Init /\ [][NextTiming]_vars

\* ==================================================================== claims
HasTerminal(out) == \E i \in 1..Len(out) : out[i] \in Terminal

\* C1: within one active period (from a process() call up to the next) at
\* most one terminal notification (on_job_done, on_job_failed,
\* on_job_cancelled) is emitted, whatever calls are made.
C1_AtMostOneTerminal == runs > 0 => terminals <= 1

\* C2: the notifications of one active period come in the order started,
\* progress/paused/resumed, terminal: on_job_started is the first one after
\* process(), and no on_job_progress follows the terminal notification.
C2_NotificationOrder ==
  runs > 0 => /\ first \in {"", "on_job_started"}
              /\ ~late_progress

C4_NoDoubleStart ==
  [][ (lastOp'.op = "process" /\ Active)
        => /\ raised'
           /\ emitted' = <<>>
           /\ UNCHANGED <<start, protocol, handle, status_timer>>
    ]_vars

\* C5: active is false right after construction and false in every state
\* reached right after a call that emitted a terminal notification.
C5_InactiveAfterTerminal ==
  /\ lastOp.op = "init" => ~Active
  /\ HasTerminal(emitted) => ~Active

C5_Witness ==
  /\ runs > 0
  /\ first = "on_job_started"
  /\ HasTerminal(emitted)
  /\ ~Active

\* C6: start_time is set if and only if the job is active, and elapsed is
\* None whenever the job is not active.
C6_StartIffActive ==
  /\ start # None <=> Active
  /\ ~Active => elapsed = None

\* C7: after every terminal transition the job holds no transport reference
\* and is not registered on the transport; the job is registered only while
\* it is active.
C7_TornDownAfterTerminal ==
  /\ HasTerminal(emitted) => (protocol = NoProtocol /\ ~registered)
  /\ registered => Active

\* C8: a local-file job run to completion by get_next() and then run again
\* from position 0 has the same read_lines and actual_lines at the end of
\* the second run as at the end of the first.
C8_SameCountsOnRerun ==
  Len(ends) >= 2 => ends[1] = ends[2]

\* C9: read_lines <= actual_lines in every reachable state of a local-file
\* job.
C9_ReadLeActual ==
  kind \in LocalKinds => read_lines <= actual_lines

C9_Witness ==
  /\ kind \in LocalKinds
  /\ runs >= 2
  /\ read_lines >= 1
  /\ read_lines < actual_lines

\* C10 as stated: no get_next() call that returns (no cancel, no seek) leaves
\* pos smaller than before, the call that detects the end included.
C10_PosNeverDecreases ==
  [][ (lastOp'.op = "get_next" /\ lastOp'.arg = "returned") => pos' >= pos ]_vars

\* C10 amended: a get_next() call that returns and leaves the job active
\* does not decrease pos; the call that detects the end of the resource runs
\* the terminal reset and leaves pos at 0.
C10_PosMonotoneWhileActive ==
  [][ (lastOp'.op = "get_next" /\ lastOp'.arg = "returned")
        => IF Active' THEN pos' >= pos ELSE pos' = 0
    ]_vars

C10_Witness ==
  /\ lastOp.op = "get_next"
  /\ lastOp.arg = "returned"
  /\ Active
  /\ read_lines >= 2
  /\ pos > 2

\* ------------------------------------------------------------------- C11
\* the physical lines of a text, each with its newline
RECURSIVE PhysicalLines(_, _)
PhysicalLines(text, cur) ==
  IF text = <<>> THEN (IF cur = <<>> THEN <<>> ELSE <<cur>>)
  ELSE IF Head(text) = "\n" THEN <<Append(cur, "\n")>> \o PhysicalLines(Tail(text), <<>>)
  ELSE PhysicalLines(Tail(text), Append(cur, Head(text)))

\* what is left of a line without its comment and surrounding blanks
Command(l) == Strip(UpToComment(Strip(l)))

\* the indices of the non-blank, non-comment physical lines
KeptIndices == LET ls == PhysicalLines(content, <<>>)
               IN  { i \in 1..Len(ls) : Command(ls[i]) # <<>> }

\* the index of the k-th kept line
KthKept(k) == CHOOSE i \in KeptIndices : Cardinality({ j \in KeptIndices : j <= i }) = k

ExpectedLines == LET ls == PhysicalLines(content, <<>>)
                 IN  [ k \in 1..Cardinality(KeptIndices) |-> Command(ls[KthKept(k)]) ]

FirstCleanRun  == kind \in GcodeKinds /\ runs = 1 /\ clean
FirstRunDone   == kind \in GcodeKinds /\ runs = 1 /\ Len(ends) = 1 /\ lastOp.op = "get_next"
LastReturned   == /\ FirstCleanRun
                  /\ lastOp.op = "get_next"
                  /\ ret.tag = "value"
                  /\ Len(got) = Cardinality(KeptIndices)

\* C11 as stated: a line-filtering job over N physical lines of which K are
\* non-blank, non-comment returns exactly those K lines in order from K
\* get_next() calls, with actual_lines = N and read_lines = K once the last
\* of them has been returned; the next get_next() emits on_job_done and
\* returns None.
C11_AllLinesCounted ==
  /\ LastReturned => /\ got = ExpectedLines
                     /\ read_lines = Cardinality(KeptIndices)
                     /\ actual_lines = Len(PhysicalLines(content, <<>>))
  /\ FirstRunDone => /\ got = ExpectedLines
                     /\ ret = RetNone
                     /\ \E i \in 1..Len(emitted) : emitted[i] = "on_job_done"

\* C11 amended: on its first run from position 0 the job returns exactly the
\* K kept lines in order, one per get_next() call; after the k-th of them
\* read_lines = k and actual_lines is the number of physical lines up to and
\* including that line (N only if no blank or comment line follows the last
\* one); the next get_next() after the last emits on_job_done and returns
\* None.
C11_KeptLinesInOrder ==
  /\ FirstCleanRun => /\ Len(got) <= Cardinality(KeptIndices)
                      /\ got = SubSeq(ExpectedLines, 1, Len(got))
                      /\ read_lines = Len(got)
                      /\ Len(got) > 0 => actual_lines = KthKept(Len(got))
  /\ FirstRunDone => /\ got = ExpectedLines
                     /\ ret = RetNone
                     /\ actual_lines = Len(PhysicalLines(content, <<>>)) + 1
                     /\ \E i \in 1..Len(emitted) : emitted[i] = "on_job_done"

C11_Witness ==
  /\ FirstRunDone
  /\ Len(got) = 2
  /\ Len(PhysicalLines(content, <<>>)) = 2

\* ------------------------------------------------------------------- C12
\* C12: each transport callback delivered to an SD job makes it emit exactly
\* one notification, of the callback's own kind (file-print-started gives
\* on_job_started, each status gives one on_job_progress, file-print-done
\* gives on_job_done), and when a status (pos, total) has been delivered the
\* job's progress is pos / total.
C12_OneNotificationPerCallback ==
  [][ kind = "SDFilePrintjob" =>
        /\ lastOp'.op = "on_protocol_file_print_started" => emitted' = <<"on_job_started">>
        /\ lastOp'.op = "on_protocol_file_status" =>
             /\ emitted' = <<"on_job_progress">>
             /\ progress' # NoProgress
             /\ progress'.num * lastOp'.arg[2] = lastOp'.arg[1] * progress'.den
        /\ lastOp'.op = "on_protocol_file_print_done" => emitted' = <<"on_job_done">>
    ]_vars

C12_Witness ==
  /\ kind = "SDFilePrintjob"
  /\ Active
  /\ first = "on_job_started"
  /\ lastOp.op = "on_protocol_file_status"
  /\ lastOp.arg = <<1, 1>>
  /\ emitted = <<"on_job_progress">>
  /\ progress = [num |-> 1, den |-> 1]

\* ------------------------------------------------------------------- C13
\* C13: once cancel(error=True) has ended an active run of an SD job, nothing
\* that happens before the next process() makes the job emit on_job_progress
\* or changes its pos or size.
C13_QuietAfterFailure ==
  [][ (kind = "SDFilePrintjob" /\ error_cancelled /\ lastOp'.op # "process")
        => /\ \A i \in 1..Len(emitted') : emitted'[i] # "on_job_progress"
           /\ last_pos' = last_pos
           /\ sd_size' = sd_size
    ]_vars

\* ------------------------------------------------------------------- C14
\* C14: a cancel() that runs while another thread is inside get_next() is
\* harmless: the handle get_next() has checked is still there when it reads,
\* and the get_next() that was in flight neither emits a second terminal
\* notification nor raises out of the cancelled job's cleanup.
C14_CancelDuringGetNextSafe ==
  [][ /\ pc' = "read" => handle' # None
      /\ (pc = "read" /\ lastOp'.op = "get_next" /\ terminals > 0) => ~HasTerminal(emitted')
      /\ (pc = "read" /\ lastOp'.op = "get_next" /\ protocol = NoProtocol) => ~raised'
    ]_vars

\* ------------------------------------------------------------------- C15
\* the timers that may still issue a status query
Querying == { t \in timers : active_flag \/ t \in ticking }

\* C15: the status timer started by one process() ends with that run: at any
\* time at most one status timer may issue status queries, and it is the one
\* started by the latest process().
C15_OneStatusTimer ==
  /\ Cardinality(Querying) <= 1
  /\ \A t \in Querying : t = status_timer

\* ------------------------------------------------------------------- C16
\* C16: whenever a recording job sends a terminal notification, the transport
\* has been told to stop recording earlier in the same call and is not
\* recording when the listener is notified; before on_job_cancelled the
\* transport was told to stop recording and then to delete the remote file;
\* delete_file is issued on the cancelled path only, directly before
\* on_job_cancelled.
C16_TransportTornDownFirst ==
  kind = "LocalGcodeStreamjob" =>
    \A i \in 1..Len(trace) :
      /\ trace[i].ev \in Terminal =>
           /\ ~trace[i].recording
           /\ \E j \in 1..(i - 1) : trace[j].ev = "stop_recording_file"
      /\ trace[i].ev = "on_job_cancelled" =>
           \E j \in 1..(i - 1) : \E k \in (j + 1)..(i - 1) :
             trace[j].ev = "stop_recording_file" /\ trace[k].ev = "delete_file"
      /\ trace[i].ev = "delete_file" =>
           i < Len(trace) /\ trace[i + 1].ev = "on_job_cancelled"

C16_Witness ==
  /\ kind = "LocalGcodeStreamjob"
  /\ lastOp.op = "cancel"
  /\ lastOp.arg = "user"
  /\ Len(trace) = 3
  /\ trace[1].ev = "stop_recording_file"
  /\ trace[2].ev = "delete_file"
  /\ trace[3].ev = "on_job_cancelled"
  /\ ~trace[3].recording
  /\ deleted

\* ------------------------------------------------------------------- C17
\* C17: a get_next() that returns from an active local-file job returns
\* either a non-empty processed unit, having incremented read_lines and
\* emitted on_job_progress, or None at the end of the resource; it never
\* returns an empty unit.
C17_NeverEmptyUnit ==
  [][ (kind \in LocalKinds /\ Active /\ lastOp'.op = "get_next" /\ lastOp'.arg = "returned")
        => \/ /\ ret'.tag = "value"
              /\ ret'.val # <<>>
              /\ read_lines' = read_lines + 1
              /\ \E i \in 1..Len(emitted') : emitted'[i] = "on_job_progress"
           \/ /\ ret' = RetNone
              /\ handle' = None
    ]_vars

\* ------------------------------------------------------------------- C18
\* C18: every terminal transition resets the timing accounting: the call
\* that ends an active run leaves lost_time at zero, and the process() that
\* follows a finished run starts with lost_time zero and a clean_elapsed
\* equal to its elapsed time.
C18_TerminalResetsLostTime ==
  [][ /\ (Active /\ ~Active' /\ HasTerminal(emitted')) => lost_time' = 0
      /\ (~Active /\ runs > 0 /\ terminals > 0 /\ lastOp'.op = "process")
           => /\ lost_time' = 0
              /\ start' # None
              /\ clean_elapsed' = elapsed'
    ]_vars

\* ------------------------------------------------------------------- C19
\* C19: a round of the status timer never fails, whatever cancel() does
\* beside it: it either issues the status query to the transport the job is
\* still bound to, or changes nothing.
C19_TickNeverFails ==
  [][ lastOp'.op = "timer"
        => /\ ~raised'
           /\ \/ status_queried' /\ protocol = Proto /\ protocol' = Proto
              \/ status_queried' = status_queried
    ]_vars

\* ------------------------------------------------------------------- C20
\* C20: cancel() on a job that is not active (never processed, or already
\* past a terminal transition) does nothing: it emits no notification,
\* raises no error and leaves start time, transport reference, pos,
\* read_lines and cancel_pos as they were.
C20_CancelInactiveIsNoOp ==
  [][ (~Active /\ lastOp'.op = "cancel")
        => /\ emitted' = <<>>
           /\ ~raised'
           /\ UNCHANGED <<start, protocol, pos, read_lines, cancel_pos>>
    ]_vars

====
